---- MODULE Spec2Model ----
(***************************************************************************)
(* Model of the search-index flusher                                       *)
(* (crates/database/src/index_workers/search_flusher.rs).                  *)
(*                                                                         *)
(* Five specifications share  the operators and actions of the module:     *)
(*   Spec         one index and one table of documents that are never      *)
(*                deleted: needs_backfill picks a job,                     *)
(*                build_multipart_segment plans it and spawns the build    *)
(*                thread, the thread consumes the document stream element  *)
(*                by element through the scan closure and sends its value  *)
(*                over the one-shot channel, the caller assembles the      *)
(*                result and commits or drops it.                          *)
(*   CatchUpSpec  the same program over a table whose documents are also   *)
(*                deleted; the caller can give a result up and run the     *)
(*                build again.                                             *)
(*   ChannelSpec  the same program where the build thread can also end     *)
(*                before it sends and the caller can be dropped while it   *)
(*                waits.                                                   *)
(*   BackfillSpec a fresh backfill over documents that all fit the         *)
(*                threshold, where no step fails and the flusher keeps     *)
(*                taking its steps.                                        *)
(*   ScanSpec     needs_backfill over a list of index metadata records     *)
(*                drawn from bounded sets.                                 *)
(***************************************************************************)
EXTENDS Integers, Sequences, FiniteSets, TLC

(* ------------------------------ bounds --------------------------------- *)
\* Number of document ids of the table (by-id order is the order of ids).
MaxDocs == 2
\* Largest estimate_document_size of one document.
MaxSize == 2
\* Largest commit timestamp; the clock of Spec runs over 1..MaxTs.
MaxTs == 2
\* Largest incremental_multipart_threshold_bytes a flusher is built with.
MaxThreshold == 2
\* Longest segment list a commit may write (a backfill whose cursor falls back
\* to None re-reads documents and would add segments for ever).
MaxSegments == 2
\* Number of index metadata records scanned in ScanSpec.
NumIndexes == 2
\* Largest index size in the size map of ScanSpec.
MaxIndexSize == 2

(* -------------------------- program constants -------------------------- *)
\* SearchFlusher.index_size_soft_limit
index_size_soft_limit == 1
\* common::knobs::DATABASE_WORKERS_MAX_CHECKPOINT_AGE, in timestamp units
DATABASE_WORKERS_MAX_CHECKPOINT_AGE == 1

(* ------------------------------ Option --------------------------------- *)
None == << >>
Some(x) == << x >>
IsSome(o) == o # << >>
Unwrap(o) == o[1]

DocIds == 1..MaxDocs
Timestamps == 1..MaxTs

VARIABLES
    clock,      \* latest commit timestamp: what Database::begin reads
    table,      \* document id -> [size, created, deleted]: the table's history
    threshold,  \* SearchFlusher.incremental_multipart_threshold_bytes
    index,      \* the index metadata record (its on_disk_state) of Spec
    pc,         \* position of the flusher's caller
    job,        \* Option<IndexBuild> returned by needs_backfill
    plan,       \* (previous_segments, build_type, new_ts) of the run
    scan,       \* state of the document stream of the run
    result,     \* Option<IndexBuildResult> of the run
    thread,     \* the build thread of the run and its one-shot channel
    hist,       \* history: the last result given up, the revisions absorbed
    index_docs, \* ScanSpec: the index metadata records get_all_indexes returns
    scan_out    \* ScanSpec: what needs_backfill returned

vars == << clock, table, threshold, index, pc, job, plan, scan, result,
           thread, hist, index_docs, scan_out >>

Max(a, b) == IF a >= b THEN a ELSE b

(* ----------------------- index metadata records ------------------------ *)
(* One record shape for every on_disk_state:                               *)
(*   kind   "search" for a config T::get_config accepts, "other" otherwise *)
(*   state  "Backfilling" | "Backfilled" | "SnapshottedAt"                 *)
(*   backfill_snapshot_ts, cursor, segments   the BackfillState            *)
(*   ts, data                                 the SearchSnapshot           *)
(*     data is "Unknown" or "MultiSegment"; the parts of a MultiSegment    *)
(*     are in segments                                                     *)
(*   ff     the fast-forward timestamp recorded for the index              *)
(*   size   Option: the index's entry in the size map                      *)
(***************************************************************************)
BackfillingState(anchor, cursor, segments) ==
    [kind |-> "search", state |-> "Backfilling",
     backfill_snapshot_ts |-> anchor, cursor |-> cursor, segments |-> segments,
     ts |-> 1, data |-> "MultiSegment", ff |-> 0, size |-> None]

SnapshotState(state, ts, data, parts, ff, size) ==
    [kind |-> "search", state |-> state,
     backfill_snapshot_ts |-> None, cursor |-> None, segments |-> parts,
     ts |-> ts, data |-> data, ff |-> ff, size |-> size]

\* An index whose config is not of this flusher's kind.
OtherKind == [BackfillingState(None, None, << >>) EXCEPT !.kind = "other"]

\* SearchIndex::is_version_current: the stored format matches the
\* implementation, that is, the snapshot data is not the legacy Unknown.
is_version_current(snapshot) == snapshot.data # "Unknown"

\* IndexWorkerMetadataModel::get_fast_forward_ts: the later of the snapshot's
\* timestamp and the recorded fast-forward timestamp.
get_fast_forward_ts(ts, ff) == Max(ts, ff)

\* RepeatableTimestamp::prior_ts: ts as a repeatable timestamp, an error when
\* ts is later than self.
prior_ts(self, ts) == IF ts <= self THEN Some(ts) ELSE None

(* --------------------------- needs_backfill ---------------------------- *)
index_size_of(config) == IF IsSome(config.size) THEN Unwrap(config.size) ELSE 0

\* A classifier that lets TooOld win over TooLarge.
ReasonTooOldFirst(config, begin_ts) ==
    IF config.state = "Backfilling" THEN "Backfilling"
    ELSE IF ~is_version_current(config) THEN "VersionMismatch"
    ELSE LET ts == get_fast_forward_ts(config.ts, config.ff)
             index_size == index_size_of(config)
         IN  IF ~(ts <= begin_ts) THEN "Error"
             ELSE IF begin_ts - ts >= DATABASE_WORKERS_MAX_CHECKPOINT_AGE
                     /\ index_size > 0 THEN "TooOld"
             ELSE IF index_size > index_size_soft_limit THEN "TooLarge"
             ELSE "NoBuild"

\* A classifier that forgets the index_size > 0 condition of TooOld.
ReasonEmptyTooOld(config, begin_ts) ==
    IF config.state = "Backfilling" THEN "Backfilling"
    ELSE IF ~is_version_current(config) THEN "VersionMismatch"
    ELSE LET ts == get_fast_forward_ts(config.ts, config.ff)
             index_size == index_size_of(config)
         IN  IF ~(ts <= begin_ts) THEN "Error"
             ELSE IF index_size > index_size_soft_limit THEN "TooLarge"
             ELSE IF begin_ts - ts >= DATABASE_WORKERS_MAX_CHECKPOINT_AGE
             THEN "TooOld"
             ELSE "NoBuild"

\* A classifier whose version check covers SnapshottedAt only.
ReasonBackfilledUnchecked(config, begin_ts) ==
    IF config.state = "Backfilling" THEN "Backfilling"
    ELSE IF config.state = "SnapshottedAt" /\ ~is_version_current(config)
    THEN "VersionMismatch"
    ELSE LET ts == get_fast_forward_ts(config.ts, config.ff)
             index_size == index_size_of(config)
         IN  IF ~(ts <= begin_ts) THEN "Error"
             ELSE IF index_size > index_size_soft_limit THEN "TooLarge"
             ELSE IF begin_ts - ts >= DATABASE_WORKERS_MAX_CHECKPOINT_AGE
                     /\ index_size > 0 THEN "TooOld"
             ELSE "NoBuild"

\* The match on config.on_disk_state: the BuildReason of Some(..), "NoBuild"
\* for None, "Error" for the failed ensure!(ts <= *step_ts).
needs_backfill_reason(config, begin_ts) ==
    IF config.state = "Backfilling" THEN "Backfilling"
    ELSE IF ~is_version_current(config) THEN "VersionMismatch"
    ELSE LET ts == get_fast_forward_ts(config.ts, config.ff)
             index_size == index_size_of(config)
         IN  IF ~(ts <= begin_ts) THEN "Error"
             ELSE LET index_age == begin_ts - ts
                      too_old == index_age >= DATABASE_WORKERS_MAX_CHECKPOINT_AGE
                                 /\ index_size > 0
                      too_large == index_size > index_size_soft_limit
                  \* too_large.or(too_old)
                  IN  IF too_large THEN "TooLarge"
                      ELSE IF too_old THEN "TooOld"
                      ELSE "NoBuild"

\* IndexBuild: the job of index number i with its config as scanned.
IndexBuild(i, config, reason) ==
    [index_id |-> i, index_config |-> config, build_reason |-> reason]

\* What needs_backfill hands back: Ok(jobs) or Err. collected is the to_build
\* vector as it stood when the function returned; an Err drops it.
ScanOk(to_build) == [ok |-> TRUE, jobs |-> to_build, collected |-> to_build]
ScanErr(to_build) == [ok |-> FALSE, jobs |-> << >>, collected |-> to_build]

\* Whether iteration i awaits the database: get_fast_forward_ts in the third
\* arm, by_id_index_metadata for a job.
AwaitsDatabase(config, begin_ts) ==
    /\ config.kind = "search"
    /\ \/ config.state # "Backfilling" /\ is_version_current(config)
       \/ needs_backfill_reason(config, begin_ts) \notin {"NoBuild", "Error"}

\* A loop that answers a failed iteration with the jobs collected so far.
RECURSIVE LoopPartialOnError(_, _, _, _, _)
LoopPartialOnError(docs, i, to_build, begin_ts, fail_at) ==
    IF i > Len(docs) THEN
        IF fail_at = i THEN ScanErr(to_build) ELSE ScanOk(to_build)
    ELSE LET config == docs[i]
             reason == needs_backfill_reason(config, begin_ts)
         IN  IF config.kind # "search"
             THEN LoopPartialOnError(docs, i + 1, to_build, begin_ts, fail_at)
             ELSE IF fail_at = i /\ AwaitsDatabase(config, begin_ts)
             THEN ScanErr(to_build)
             ELSE IF reason = "Error" THEN ScanOk(to_build)
             ELSE IF reason = "NoBuild"
             THEN LoopPartialOnError(docs, i + 1, to_build, begin_ts, fail_at)
             ELSE LoopPartialOnError(docs, i + 1,
                      Append(to_build, IndexBuild(i, config, reason)),
                      begin_ts, fail_at)

\* The for loop over get_all_indexes from record i on, then Ok((to_build,
\* token)). fail_at names the iteration whose database await fails
\* (Len(docs) + 1: tx.into_token fails; 0: nothing fails).
RECURSIVE needs_backfill_loop(_, _, _, _, _)
needs_backfill_loop(docs, i, to_build, begin_ts, fail_at) ==
    IF i > Len(docs) THEN
        IF fail_at = i THEN ScanErr(to_build) ELSE ScanOk(to_build)
    ELSE LET config == docs[i]
             reason == needs_backfill_reason(config, begin_ts)
         IN  IF config.kind # "search"
             THEN needs_backfill_loop(docs, i + 1, to_build, begin_ts, fail_at)
             ELSE IF fail_at = i /\ AwaitsDatabase(config, begin_ts)
             THEN ScanErr(to_build)
             ELSE IF reason = "Error" THEN ScanErr(to_build)
             ELSE IF reason = "NoBuild"
             THEN needs_backfill_loop(docs, i + 1, to_build, begin_ts, fail_at)
             ELSE needs_backfill_loop(docs, i + 1,
                      Append(to_build, IndexBuild(i, config, reason)),
                      begin_ts, fail_at)

needs_backfill(docs, begin_ts, fail_at) ==
    needs_backfill_loop(docs, 1, << >>, begin_ts, fail_at)

(* --------------------------- the table --------------------------------- *)
\* The documents of the table at timestamp ts: created at or before ts and
\* not deleted at or before it (deleted = 0: never deleted).
DocsAt(ts) ==
    {d \in DocIds : /\ table[d].created <= ts
                    /\ (table[d].deleted = 0 \/ table[d].deleted > ts)}

\* The elements of a finite set of numbers, ascending.
RECURSIVE Ascending(_)
Ascending(S) ==
    IF S = {} THEN << >>
    ELSE LET m == CHOOSE x \in S : \A y \in S : x <= y
         IN  << m >> \o Ascending(S \ {m})

\* TableIterator::stream_documents_in_table(table, by_id, cursor) at ts: the
\* documents of the table at ts, in by-id order, strictly after cursor.
stream_documents_in_table(ts, cursor) ==
    Ascending({d \in DocsAt(ts) : IsSome(cursor) => d > Unwrap(cursor)})

\* One revision of the document log: (ts, id, Some(document)) for a write,
\* (ts, id, None) for a delete.
Revision(ts, id, live) == [ts |-> ts, id |-> id, live |-> live]

\* The revisions committed at timestamp ts, by id, the write of an id first.
RevisionsAt(ts) ==
    LET written == Ascending({d \in DocIds : table[d].created = ts})
        deleted == Ascending({d \in DocIds : table[d].deleted = ts})
    IN  [i \in 1..Len(written) |-> Revision(ts, written[i], TRUE)]
        \o [i \in 1..Len(deleted) |-> Revision(ts, deleted[i], FALSE)]

\* The revisions with a timestamp in first..last, in commit order.
RECURSIVE InCommitOrder(_, _)
InCommitOrder(first, last) ==
    IF first > last THEN << >>
    ELSE RevisionsAt(first) \o InCommitOrder(first + 1, last)

\* Database::load_documents_in_table over (last_ts, snapshot_ts]: the
\* revisions committed in the range, in commit order.
load_documents_in_table(last_ts, snapshot_ts) ==
    InCommitOrder(last_ts + 1, snapshot_ts)

\* SearchIndex::estimate_document_size
estimate_document_size(doc) == table[doc].size

(* ------------------ the scan closure of the stream --------------------- *)
\* A stream element: Ok((doc, ts)) or Err.
OkDoc(d) == [ok |-> TRUE, doc |-> d]
ErrDoc == [ok |-> FALSE, doc |-> 0]

ScanState(total, cursor, complete, yield) ==
    [total_size |-> total, new_cursor |-> cursor,
     is_backfill_complete |-> complete, yield |-> yield]

\* A closure that tests the budget before it adds the element's size.
ScanBudgetBeforeAdd(st, res, limit) ==
    LET total == IF res.ok THEN st.total_size + estimate_document_size(res.doc)
                 ELSE st.total_size
    IN  IF st.total_size <= limit
        THEN ScanState(total, IF res.ok THEN Some(res.doc) ELSE st.new_cursor,
                       st.is_backfill_complete, TRUE)
        ELSE ScanState(total, st.new_cursor, FALSE, FALSE)

\* A closure that stops as soon as the budget is reached (< for <=).
ScanStrictBudget(st, res, limit) ==
    LET total == IF res.ok THEN st.total_size + estimate_document_size(res.doc)
                 ELSE st.total_size
    IN  IF total < limit
        THEN ScanState(total, IF res.ok THEN Some(res.doc) ELSE st.new_cursor,
                       st.is_backfill_complete, TRUE)
        ELSE ScanState(total, st.new_cursor, FALSE, FALSE)

\* A closure that moves the cursor before it tests the budget.
ScanCursorBeforeTest(st, res, limit) ==
    LET total == IF res.ok THEN st.total_size + estimate_document_size(res.doc)
                 ELSE st.total_size
        cursor == IF res.ok THEN Some(res.doc) ELSE st.new_cursor
    IN  IF total <= limit
        THEN ScanState(total, cursor, st.is_backfill_complete, TRUE)
        ELSE ScanState(total, cursor, FALSE, FALSE)

\* A closure that yields within the budget but never moves the cursor.
ScanCursorStays(st, res, limit) ==
    LET total == IF res.ok THEN st.total_size + estimate_document_size(res.doc)
                 ELSE st.total_size
    IN  IF total <= limit
        THEN ScanState(total, st.new_cursor, st.is_backfill_complete, TRUE)
        ELSE ScanState(total, st.new_cursor, FALSE, FALSE)

\* A closure that forgets to clear is_backfill_complete.
ScanKeepsComplete(st, res, limit) ==
    LET total == IF res.ok THEN st.total_size + estimate_document_size(res.doc)
                 ELSE st.total_size
    IN  IF total <= limit
        THEN ScanState(total, IF res.ok THEN Some(res.doc) ELSE st.new_cursor,
                       st.is_backfill_complete, TRUE)
        ELSE ScanState(total, st.new_cursor, st.is_backfill_complete, FALSE)

\* The closure of .scan(0_u64, ..): st holds total_size and the captured
\* new_cursor and is_backfill_complete; yield is whether the closure returned
\* Some(res) (the element goes on to the builder) or None (the stream ends).
scan_closure(st, res, limit) ==
    LET total == IF res.ok THEN st.total_size + estimate_document_size(res.doc)
                 ELSE st.total_size
        updated_cursor == IF res.ok THEN Some(res.doc) ELSE None
    IN  IF total <= limit
        THEN ScanState(total,
                       IF IsSome(updated_cursor) THEN updated_cursor
                       ELSE st.new_cursor,
                       st.is_backfill_complete, TRUE)
        ELSE ScanState(total, st.new_cursor, FALSE, FALSE)

(* ---------------------------- the planner ------------------------------ *)
IncrementalComplete(cursor, backfill_snapshot_ts) ==
    [kind |-> "IncrementalComplete", cursor |-> cursor,
     backfill_snapshot_ts |-> Some(backfill_snapshot_ts), last_ts |-> None]
Partial(last_ts) ==
    [kind |-> "Partial", cursor |-> None,
     backfill_snapshot_ts |-> None, last_ts |-> Some(last_ts)]

Plan(previous_segments, build_type, new_ts) ==
    [ok |-> TRUE, previous_segments |-> previous_segments,
     build_type |-> build_type, new_ts |-> new_ts]
PlanErr == [ok |-> FALSE, previous_segments |-> << >>,
            build_type |-> Partial(0), new_ts |-> 0]

\* A planner that re-anchors every backfill run at its own begin timestamp.
PlanReanchors(config, begin_ts) ==
    IF config.state = "Backfilling"
    THEN Plan(config.segments, IncrementalComplete(config.cursor, begin_ts),
              begin_ts)
    ELSE IF config.data = "Unknown"
    THEN Plan(<< >>, IncrementalComplete(None, begin_ts), begin_ts)
    ELSE LET ts == get_fast_forward_ts(config.ts, config.ff)
         IN  IF IsSome(prior_ts(begin_ts, ts))
             THEN Plan(config.segments, Partial(ts), begin_ts)
             ELSE PlanErr

\* A planner that catches up every snapshot, whatever its data.
PlanAlwaysPartial(config, begin_ts) ==
    IF config.state = "Backfilling"
    THEN LET anchor == IF IsSome(config.backfill_snapshot_ts)
                       THEN prior_ts(begin_ts, Unwrap(config.backfill_snapshot_ts))
                       ELSE Some(begin_ts)
         IN  IF IsSome(anchor)
             THEN Plan(config.segments,
                       IncrementalComplete(config.cursor, Unwrap(anchor)),
                       Unwrap(anchor))
             ELSE PlanErr
    ELSE LET ts == get_fast_forward_ts(config.ts, config.ff)
         IN  IF IsSome(prior_ts(begin_ts, ts))
             THEN Plan(config.segments, Partial(ts), begin_ts)
             ELSE PlanErr

\* A planner that catches up from the snapshot of the result last given up.
PlanFromLastRun(config, begin_ts) ==
    IF config.state = "Backfilling"
    THEN LET anchor == IF IsSome(config.backfill_snapshot_ts)
                       THEN prior_ts(begin_ts, Unwrap(config.backfill_snapshot_ts))
                       ELSE Some(begin_ts)
         IN  IF IsSome(anchor)
             THEN Plan(config.segments,
                       IncrementalComplete(config.cursor, Unwrap(anchor)),
                       Unwrap(anchor))
             ELSE PlanErr
    ELSE IF config.data = "Unknown"
    THEN Plan(<< >>, IncrementalComplete(None, begin_ts), begin_ts)
    ELSE LET ts == IF IsSome(hist.last_run)
                   THEN Unwrap(hist.last_run).result.snapshot_ts
                   ELSE get_fast_forward_ts(config.ts, config.ff)
         IN  IF IsSome(prior_ts(begin_ts, ts))
             THEN Plan(config.segments, Partial(ts), begin_ts)
             ELSE PlanErr

\* A planner whose Partial range starts at the snapshot's own timestamp.
PlanPartialInclusive(config, begin_ts) ==
    IF config.state = "Backfilling"
    THEN LET anchor == IF IsSome(config.backfill_snapshot_ts)
                       THEN prior_ts(begin_ts, Unwrap(config.backfill_snapshot_ts))
                       ELSE Some(begin_ts)
         IN  IF IsSome(anchor)
             THEN Plan(config.segments,
                       IncrementalComplete(config.cursor, Unwrap(anchor)),
                       Unwrap(anchor))
             ELSE PlanErr
    ELSE IF config.data = "Unknown"
    THEN Plan(<< >>, IncrementalComplete(None, begin_ts), begin_ts)
    ELSE LET ts == get_fast_forward_ts(config.ts, config.ff)
         IN  IF IsSome(prior_ts(begin_ts, ts))
             THEN Plan(config.segments, Partial(ts - 1), begin_ts)
             ELSE PlanErr

\* A planner that drops the segments of the backfill's earlier runs.
PlanForgetsSegments(config, begin_ts) ==
    IF config.state = "Backfilling"
    THEN LET anchor == IF IsSome(config.backfill_snapshot_ts)
                       THEN prior_ts(begin_ts, Unwrap(config.backfill_snapshot_ts))
                       ELSE Some(begin_ts)
         IN  IF IsSome(anchor)
             THEN Plan(<< >>,
                       IncrementalComplete(config.cursor, Unwrap(anchor)),
                       Unwrap(anchor))
             ELSE PlanErr
    ELSE IF config.data = "Unknown"
    THEN Plan(<< >>, IncrementalComplete(None, begin_ts), begin_ts)
    ELSE LET ts == get_fast_forward_ts(config.ts, config.ff)
         IN  IF IsSome(prior_ts(begin_ts, ts))
             THEN Plan(config.segments, Partial(ts), begin_ts)
             ELSE PlanErr

\* The match on job.index_config.on_disk_state of build_multipart_segment:
\* (previous_segments, build_type) and the new_ts the run declares, or the
\* error of a failed prior_ts.
plan_build(config, begin_ts) ==
    IF config.state = "Backfilling"
    THEN LET anchor == IF IsSome(config.backfill_snapshot_ts)
                       THEN prior_ts(begin_ts, Unwrap(config.backfill_snapshot_ts))
                       ELSE Some(begin_ts)
         IN  IF IsSome(anchor)
             THEN Plan(config.segments,
                       IncrementalComplete(config.cursor, Unwrap(anchor)),
                       Unwrap(anchor))
             ELSE PlanErr
    ELSE IF config.data = "Unknown"
    THEN Plan(<< >>, IncrementalComplete(None, begin_ts), begin_ts)
    ELSE LET ts == get_fast_forward_ts(config.ts, config.ff)
         IN  IF IsSome(prior_ts(begin_ts, ts))
             THEN Plan(config.segments, Partial(ts), begin_ts)
             ELSE PlanErr

(* ------------------------- the run of a build -------------------------- *)
\* The stream state before the first poll: total_size 0, new_cursor None,
\* is_backfill_complete true.
NoScan ==
    [pos |-> 0, total_size |-> 0, new_cursor |-> None,
     is_backfill_complete |-> TRUE, yielded |-> << >>, revisions |-> << >>,
     errored |-> FALSE, stopped |-> FALSE, done |-> FALSE]

NoPlan == [PlanErr EXCEPT !.ok = TRUE] @@ [begin_ts |-> 0]

\* What the underlying stream of the planned run holds: documents for an
\* IncrementalComplete plan, revisions for a Partial plan.
Source ==
    IF plan.build_type.kind = "IncrementalComplete"
    THEN stream_documents_in_table(Unwrap(plan.build_type.backfill_snapshot_ts),
                                   plan.build_type.cursor)
    ELSE load_documents_in_table(Unwrap(plan.build_type.last_ts), plan.new_ts)

RECURSIVE SeqToSet(_)
SeqToSet(q) == IF q = << >> THEN {} ELSE {Head(q)} \cup SeqToSet(Tail(q))

\* The ids of the revisions of revs that carry a document (live) or are
\* tombstones (~live), in the order of revs.
RECURSIVE IdsOf(_, _)
IdsOf(revs, live) ==
    IF revs = << >> THEN << >>
    ELSE (IF Head(revs).live = live THEN << Head(revs).id >> ELSE << >>)
         \o IdsOf(Tail(revs), live)

\* SearchIndex::build_disk_index: a new segment of the documents the stream
\* wrote (none when it wrote no document), and the previous segments with the
\* deleted documents removed.
build_disk_index(documents, deletes, previous_segments) ==
    [new_segment |->
         IF documents = << >> THEN None
         ELSE Some(SeqToSet(documents) \ SeqToSet(deletes)),
     previous_segments |->
         [i \in 1..Len(previous_segments) |->
              previous_segments[i] \ SeqToSet(deletes)]]

\* A backfill result that is missing when the run moved no cursor.
BackfillResultOnlyWithCursor(build_type, new_cursor, is_backfill_complete) ==
    IF build_type.kind = "IncrementalComplete" /\ IsSome(new_cursor)
    THEN Some([new_cursor |-> new_cursor,
               is_backfill_complete |-> is_backfill_complete])
    ELSE None

\* MultiSegmentBackfillResult when the plan is IncrementalComplete.
index_backfill_result(build_type, new_cursor, is_backfill_complete) ==
    IF build_type.kind = "IncrementalComplete"
    THEN Some([new_cursor |-> new_cursor,
               is_backfill_complete |-> is_backfill_complete])
    ELSE None

\* What build_multipart_segment_on_thread returns: Ok(MultiSegmentBuildResult)
\* or an error.
MultiSegmentBuildResult(new_segment, updated_previous_segments, backfill_result) ==
    [ok |-> TRUE, new_segment |-> new_segment,
     updated_previous_segments |-> updated_previous_segments,
     backfill_result |-> backfill_result]

ThreadErr ==
    [ok |-> FALSE, new_segment |-> None,
     updated_previous_segments |-> << >>, backfill_result |-> None]

\* A thread that returns its segments although upload_previous_segments
\* failed.
ThreadResultIgnoresUpload(outcome, built, backfill_result) ==
    IF outcome \in {"ok", "upload_previous_segments"}
    THEN MultiSegmentBuildResult(built.new_segment, built.previous_segments,
                                 backfill_result)
    ELSE ThreadErr

\* The tail of build_multipart_segment_on_thread once the stream has been
\* consumed: build_disk_index and upload_previous_segments each return early
\* on failure; outcome names the step that failed, or "ok".
thread_result(outcome, built, backfill_result) ==
    IF outcome = "ok"
    THEN MultiSegmentBuildResult(built.new_segment, built.previous_segments,
                                 backfill_result)
    ELSE ThreadErr

\* A channel whose send reaches a receiver that was dropped.
OneshotSendRevives(chan) ==
    IF chan \in {"open", "rx_dropped"} THEN "sent" ELSE chan

\* tx.send(result) on the one-shot channel: the value is stored when the
\* receiver is alive; otherwise the send fails and the failure is ignored.
oneshot_send(chan) ==
    IF chan = "open" THEN "sent" ELSE chan

\* rx.await?: the position of the caller once the channel is in state chan:
\* the Ok value is received, an Err value or a dropped sender returns the
\* error, an open channel keeps the caller waiting.
rx_await(chan, out) ==
    IF chan = "sent"
    THEN (IF Unwrap(out).ok THEN "received" ELSE "failed")
    ELSE IF chan = "tx_dropped" THEN "failed" ELSE "awaiting"

\* SearchIndex::segment_id and SearchIndex::statistics of a segment: the
\* segment's identity and its number of documents.
segment_id(segment) == segment
statistics(segment) == Cardinality(segment)

\* SegmentStatistics::add and SegmentStatistics::default
SegmentStatistics_add(a, b) == a + b
SegmentStatistics_default == 0

\* Iterator::reduce over the statistics of the segments after the first.
RECURSIVE reduce(_, _)
reduce(acc, segments) ==
    IF segments = << >> THEN acc
    ELSE reduce(SegmentStatistics_add(acc, statistics(Head(segments))),
                Tail(segments))

\* reduce(SegmentStatistics::add) ... unwrap_or_default() over the parts.
total_stats(parts) ==
    IF parts = << >> THEN SegmentStatistics_default
    ELSE reduce(statistics(Head(parts)), Tail(parts))

\* An assembly that puts the new segment first.
ResultNewSegmentFirst(new_ts, updated_previous_segments, new_segment, backfill_result) ==
    LET parts == IF IsSome(new_segment)
                 THEN << Unwrap(new_segment) >> \o updated_previous_segments
                 ELSE updated_previous_segments
    IN  [snapshot_ts |-> new_ts,
         data |-> parts,
         total_stats |-> total_stats(parts),
         new_segment_stats |-> IF IsSome(new_segment)
                               THEN Some(statistics(Unwrap(new_segment)))
                               ELSE None,
         new_segment_id |-> IF IsSome(new_segment)
                            THEN Some(segment_id(Unwrap(new_segment)))
                            ELSE None,
         backfill_result |-> backfill_result]

\* An assembly whose total leaves the new segment out.
ResultTotalOfPrevious(new_ts, updated_previous_segments, new_segment, backfill_result) ==
    LET parts == IF IsSome(new_segment)
                 THEN Append(updated_previous_segments, Unwrap(new_segment))
                 ELSE updated_previous_segments
    IN  [snapshot_ts |-> new_ts,
         data |-> parts,
         total_stats |-> total_stats(updated_previous_segments),
         new_segment_stats |-> IF IsSome(new_segment)
                               THEN Some(statistics(Unwrap(new_segment)))
                               ELSE None,
         new_segment_id |-> IF IsSome(new_segment)
                            THEN Some(segment_id(Unwrap(new_segment)))
                            ELSE None,
         backfill_result |-> backfill_result]

\* The IndexBuildResult build_multipart_segment assembles.
IndexBuildResult(new_ts, updated_previous_segments, new_segment, backfill_result) ==
    LET new_and_updated_parts ==
            IF IsSome(new_segment)
            THEN Append(updated_previous_segments, Unwrap(new_segment))
            ELSE updated_previous_segments
    IN  [snapshot_ts |-> new_ts,
         data |-> new_and_updated_parts,
         total_stats |-> total_stats(new_and_updated_parts),
         new_segment_stats |-> IF IsSome(new_segment)
                               THEN Some(statistics(Unwrap(new_segment)))
                               ELSE None,
         new_segment_id |-> IF IsSome(new_segment)
                            THEN Some(segment_id(Unwrap(new_segment)))
                            ELSE None,
         backfill_result |-> backfill_result]

\* A caller that returns a result although a statistics call failed.
BuildResultIgnoresStatistics(outcome, new_ts, out) ==
    IF outcome \in {"ok", "statistics"}
    THEN Some(IndexBuildResult(new_ts, out.updated_previous_segments,
                               out.new_segment, out.backfill_result))
    ELSE None

\* The tail of build_multipart_segment after the thread's value arrived:
\* upload_new_segment and the statistics calls each return early on failure;
\* outcome names the step that failed, or "ok".
build_result(outcome, new_ts, out) ==
    IF outcome = "ok"
    THEN Some(IndexBuildResult(new_ts, out.updated_previous_segments,
                               out.new_segment, out.backfill_result))
    ELSE None

RECURSIVE NumDocuments(_)
NumDocuments(segments) ==
    IF segments = << >> THEN 0
    ELSE Cardinality(Head(segments)) + NumDocuments(Tail(segments))

\* The metadata record after the caller commits res for an index in state cur.
CommittedState(cur, res) ==
    IF IsSome(res.backfill_result)
       /\ ~Unwrap(res.backfill_result).is_backfill_complete
    THEN BackfillingState(Some(res.snapshot_ts),
                          Unwrap(res.backfill_result).new_cursor, res.data)
    ELSE SnapshotState(IF cur.state = "Backfilling" THEN "Backfilled"
                       ELSE cur.state,
                       res.snapshot_ts, "MultiSegment", res.data, cur.ff,
                       Some(NumDocuments(res.data)))

\* No build thread: nothing spawned, no channel.
NoThread ==
    [pc |-> "none", chan |-> "none", out |-> None,
     prev_uploaded |-> FALSE, new_upload |-> "none", failed |-> {}]

\* The record of what callers have seen: the last Partial result given up at
\* the current commit timestamp (with the job and begin timestamp of its run),
\* the timestamp of the first snapshot of the index, the non-empty ranges
\* (last_ts, new_ts) and the revisions the committed Partial builds consumed
\* since, and in BackfillSpec the number of committed backfill runs.
NoHistory(first_ts) ==
    [last_run |-> None, first_ts |-> first_ts, absorbed |-> << >>,
     ranges |-> << >>, runs |-> None]

\* The count of committed backfill runs after one more, when the history
\* counts them (BackfillSpec); the count stops at MaxDocs + 2.
CountRun(runs) ==
    IF ~IsSome(runs) THEN None
    ELSE IF Unwrap(runs) > MaxDocs + 1 THEN runs
    ELSE Some(Unwrap(runs) + 1)

\* The history after the caller committed the result res of the run.
HistoryAfterCommit(res) ==
    IF ~IsSome(res.backfill_result)
    THEN [hist EXCEPT !.last_run = None,
                      !.absorbed = @ \o scan.revisions,
                      !.ranges =
                          IF Unwrap(plan.build_type.last_ts) < res.snapshot_ts
                          THEN Append(@, << Unwrap(plan.build_type.last_ts),
                                            res.snapshot_ts >>)
                          ELSE @]
    ELSE IF Unwrap(res.backfill_result).is_backfill_complete
    THEN [NoHistory(Some(res.snapshot_ts)) EXCEPT
              !.runs = CountRun(hist.runs)]
    ELSE [hist EXCEPT !.last_run = None, !.runs = CountRun(@)]

\* needs_backfill, for the index of Spec: a job is queued when one is returned.
NeedsBackfill ==
    /\ pc = "idle"
    /\ \E fail_at \in 0..2 :
         LET out == needs_backfill(<< index >>, clock, fail_at)
         IN  /\ out.ok
             /\ out.jobs # << >>
             /\ job' = Some(out.jobs[1])
    /\ pc' = "queued"
    /\ UNCHANGED << clock, table, threshold, index, plan, scan, result,
                    thread, hist, index_docs, scan_out >>

\* build_multipart_segment up to rx.await: begin a transaction, plan, create
\* the one-shot channel, spawn the build thread. A failed step returns the
\* error.
BeginBuild ==
    /\ pc = "queued"
    /\ LET p == plan_build(Unwrap(job).index_config, clock)
       IN  \E io_ok \in BOOLEAN :
             IF p.ok /\ io_ok
             THEN /\ plan' = p @@ [begin_ts |-> clock]
                  /\ scan' = NoScan
                  /\ thread' = [NoThread EXCEPT !.pc = "download",
                                                !.chan = "open"]
                  /\ pc' = "awaiting"
             ELSE /\ pc' = "failed"
                  /\ thread' = [NoThread EXCEPT !.failed = {"begin"}]
                  /\ UNCHANGED << plan, scan >>
    /\ UNCHANGED << clock, table, threshold, index, job, result, hist,
                    index_docs, scan_out >>

\* The build thread: download_previous_segments, before the stream is polled.
ThreadDownload ==
    /\ thread.pc = "download"
    /\ \E ok \in BOOLEAN :
         thread' = IF ok THEN [thread EXCEPT !.pc = "build"]
                   ELSE [thread EXCEPT !.pc = "send",
                                       !.out = Some(ThreadErr),
                                       !.failed = @ \cup {"download"}]
    /\ UNCHANGED << clock, table, threshold, index, pc, job, plan, scan,
                    result, hist, index_docs, scan_out >>

\* One poll of the IncrementalComplete stream by build_disk_index: the
\* underlying stream ends, or hands an element (a document or a read error)
\* to the scan closure.
StreamNext ==
    /\ thread.pc = "build"
    /\ plan.build_type.kind = "IncrementalComplete"
    /\ ~scan.done
    /\ \/ /\ scan.pos = Len(Source)
          /\ scan' = [scan EXCEPT !.done = TRUE]
          /\ thread' = thread
       \/ \E res \in {ErrDoc} \cup
                     (IF scan.pos < Len(Source)
                      THEN {OkDoc(Source[scan.pos + 1])} ELSE {}) :
            LET st == scan_closure(scan, res, threshold)
            IN  /\ scan' = [scan EXCEPT
                      !.pos = IF res.ok THEN @ + 1 ELSE @,
                      !.total_size = st.total_size,
                      !.new_cursor = st.new_cursor,
                      !.is_backfill_complete = st.is_backfill_complete,
                      !.yielded = IF st.yield /\ res.ok
                                  THEN Append(@, res.doc) ELSE @,
                      !.errored = st.yield /\ ~res.ok,
                      !.stopped = ~st.yield,
                      !.done = ~st.yield \/ ~res.ok]
                \* the builder gives up at the first error it is handed
                /\ thread' = IF st.yield /\ ~res.ok
                             THEN [thread EXCEPT !.pc = "send",
                                                 !.out = Some(ThreadErr),
                                                 !.failed = @ \cup {"stream"}]
                             ELSE thread
    /\ UNCHANGED << clock, table, threshold, index, pc, job, plan, result,
                    hist, index_docs, scan_out >>

\* The Partial stream, consumed in full by build_disk_index.
StreamPartial ==
    /\ thread.pc = "build"
    /\ plan.build_type.kind = "Partial"
    /\ ~scan.done
    /\ \E ok \in BOOLEAN :
         IF ok
         THEN /\ scan' = [scan EXCEPT !.pos = Len(Source),
                                      !.revisions = Source,
                                      !.yielded = IdsOf(Source, TRUE),
                                      !.done = TRUE]
              /\ thread' = thread
         ELSE /\ scan' = [scan EXCEPT !.errored = TRUE, !.done = TRUE]
              /\ thread' = [thread EXCEPT !.pc = "send",
                                          !.out = Some(ThreadErr),
                                          !.failed = @ \cup {"stream"}]
    /\ UNCHANGED << clock, table, threshold, index, pc, job, plan, result,
                    hist, index_docs, scan_out >>

\* The build thread once the stream has ended: build_disk_index returns the
\* new segment, upload_previous_segments uploads the rewritten previous
\* segments, the backfill result is set, the value to send is ready.
ThreadFinish ==
    /\ thread.pc = "build"
    /\ scan.done
    /\ \E outcome \in {"ok", "build_disk_index", "upload_previous_segments"} :
         thread' = [thread EXCEPT
             !.pc = "send",
             !.out = Some(thread_result(
                         outcome,
                         build_disk_index(scan.yielded,
                                          IdsOf(scan.revisions, FALSE),
                                          plan.previous_segments),
                         index_backfill_result(plan.build_type,
                                               scan.new_cursor,
                                               scan.is_backfill_complete))),
             !.prev_uploaded = (outcome = "ok"),
             !.failed = IF outcome = "ok" THEN @ ELSE @ \cup {outcome}]
    /\ UNCHANGED << clock, table, threshold, index, pc, job, plan, scan,
                    result, hist, index_docs, scan_out >>

\* The build thread: _ = tx.send(result), then the thread ends.
ThreadSend ==
    /\ thread.pc = "send"
    /\ thread' = [thread EXCEPT !.pc = "done",
                                !.chan = oneshot_send(thread.chan)]
    /\ UNCHANGED << clock, table, threshold, index, pc, job, plan, scan,
                    result, hist, index_docs, scan_out >>

\* The build thread ends before tx.send (the runtime shuts it down, or the
\* build panics): the sender is dropped.
ThreadDies ==
    /\ thread.pc \in {"download", "build", "send"}
    /\ thread' = [thread EXCEPT
                      !.pc = "dead",
                      !.chan = IF @ = "open" THEN "tx_dropped" ELSE @]
    /\ UNCHANGED << clock, table, threshold, index, pc, job, plan, scan,
                    result, hist, index_docs, scan_out >>

\* rx.await? in build_multipart_segment_in_dir: the caller takes the value
\* the thread sent, or the error of a dropped sender.
Receive ==
    /\ pc = "awaiting"
    /\ rx_await(thread.chan, thread.out) # "awaiting"
    /\ pc' = rx_await(thread.chan, thread.out)
    /\ thread' = [thread EXCEPT
                      !.chan = IF @ = "sent" THEN "taken" ELSE @,
                      !.failed = IF thread.chan = "tx_dropped"
                                 THEN @ \cup {"canceled"} ELSE @]
    /\ UNCHANGED << clock, table, threshold, index, job, plan, scan, result,
                    hist, index_docs, scan_out >>

\* The caller's future is dropped while it waits on the channel: the receiver
\* is dropped.
CancelCaller ==
    /\ pc = "awaiting"
    /\ pc' = "cancelled"
    /\ thread' = [thread EXCEPT
                      !.chan = IF @ \in {"open", "sent"} THEN "rx_dropped"
                               ELSE @]
    /\ UNCHANGED << clock, table, threshold, index, job, plan, scan, result,
                    hist, index_docs, scan_out >>

\* The outcomes the tail of build_multipart_segment can have for the value
\* out of the thread: upload_new_segment runs only for a new segment, a
\* statistics call only for a segment.
FinishOutcomes(out) ==
    {"ok"}
    \cup (IF IsSome(out.new_segment) THEN {"upload_new_segment"} ELSE {})
    \cup (IF IsSome(out.new_segment) \/ out.updated_previous_segments # << >>
          THEN {"statistics"} ELSE {})

\* The rest of build_multipart_segment once the thread's value is received:
\* upload_new_segment, the statistics, the assembly of the IndexBuildResult.
\* A failed step returns the error and no result.
FinishBuild ==
    /\ pc = "received"
    /\ LET out == Unwrap(thread.out)
       IN  \E outcome \in FinishOutcomes(out) :
             /\ result' = build_result(outcome, plan.new_ts, out)
             /\ pc' = IF IsSome(result') THEN "returned" ELSE "failed"
             /\ thread' = [thread EXCEPT
                    !.new_upload =
                        IF ~IsSome(out.new_segment) THEN "none"
                        ELSE IF outcome = "upload_new_segment" THEN "failed"
                        ELSE "done",
                    !.failed = IF outcome = "ok" THEN @
                               ELSE @ \cup {outcome}]
    /\ UNCHANGED << clock, table, threshold, index, job, plan, scan, hist,
                    index_docs, scan_out >>

\* The caller writes the result into the index metadata.
Commit ==
    /\ pc = "returned"
    /\ Len(Unwrap(result).data) <= MaxSegments
    /\ index' = CommittedState(index, Unwrap(result))
    /\ hist' = HistoryAfterCommit(Unwrap(result))
    /\ pc' = "idle"
    /\ job' = None
    /\ plan' = NoPlan
    /\ scan' = NoScan
    /\ result' = None
    /\ thread' = NoThread
    /\ UNCHANGED << clock, table, threshold, index_docs, scan_out >>

\* The caller gives the result up (its token was invalidated).
Discard ==
    /\ pc = "returned"
    /\ hist' = [hist EXCEPT
                    !.last_run =
                        IF plan.build_type.kind = "Partial"
                        THEN Some([config |-> Unwrap(job).index_config,
                                   begin_ts |-> plan.begin_ts,
                                   result |-> Unwrap(result)])
                        ELSE None]
    /\ pc' = "idle"
    /\ job' = None
    /\ plan' = NoPlan
    /\ scan' = NoScan
    /\ result' = None
    /\ thread' = NoThread
    /\ UNCHANGED << clock, table, threshold, index, index_docs, scan_out >>

\* build_multipart_segment returned an error: the caller has no result.
ReturnError ==
    /\ pc = "failed"
    /\ pc' = "idle"
    /\ job' = None
    /\ plan' = NoPlan
    /\ scan' = NoScan
    /\ result' = None
    /\ thread' = NoThread
    /\ UNCHANGED << clock, table, threshold, index, hist, index_docs,
                    scan_out >>

\* The thread of a build whose caller was dropped has ended: the flusher is
\* free for the next build.
Reap ==
    /\ pc = "cancelled"
    /\ thread.pc \in {"done", "dead"}
    /\ pc' = "idle"
    /\ job' = None
    /\ plan' = NoPlan
    /\ scan' = NoScan
    /\ result' = None
    /\ thread' = NoThread
    /\ UNCHANGED << clock, table, threshold, index, hist, index_docs,
                    scan_out >>

\* Other transactions commit: the next begin timestamp is later, and no later
\* run is at the timestamp of the result last given up.
AdvanceClock ==
    /\ clock < MaxTs
    /\ clock' = clock + 1
    /\ hist' = [hist EXCEPT !.last_run = None]
    /\ UNCHANGED << table, threshold, index, pc, job, plan, scan, result,
                    thread, index_docs, scan_out >>

\* The fast-forward worker moves the index's fast-forward timestamp to the
\* latest commit when no revision of the table lies in between.
FastForward ==
    /\ pc = "idle"
    /\ index.state # "Backfilling"
    /\ LET ts == get_fast_forward_ts(index.ts, index.ff)
       IN  /\ ts < clock
           /\ load_documents_in_table(ts, clock) = << >>
    /\ index' = [index EXCEPT !.ff = clock]
    /\ UNCHANGED << clock, table, threshold, pc, job, plan, scan, result,
                    thread, hist, index_docs, scan_out >>

NoScanOut == ScanErr(<< >>)

\* The metadata records an index can start with: a fresh backfill, or a
\* snapshot taken at timestamp ts of the documents the table then held.
InitialIndexes(ts) ==
    {BackfillingState(None, None, << >>)}
    \cup {SnapshotState(st, ts, "Unknown", << >>, 0, None) :
             st \in {"Backfilled", "SnapshottedAt"}}
    \cup {SnapshotState(st, ts, "MultiSegment",
                        IF DocsAt(ts) = {} THEN << >> ELSE << DocsAt(ts) >>,
                        0, Some(Cardinality(DocsAt(ts)))) :
             st \in {"Backfilled", "SnapshottedAt"}}

\* The history of an index that starts in the state config.
InitialHistory(config) ==
    NoHistory(IF config.state # "Backfilling" /\ config.data = "MultiSegment"
              THEN Some(config.ts) ELSE None)

\* Spec: documents of every size, none deleted; the index starts as a fresh
\* backfill or as a snapshot at timestamp 1.
Init ==
    /\ clock = 1
    /\ table \in [DocIds -> [size : 1..MaxSize, created : Timestamps,
                             deleted : {0}]]
    /\ threshold \in 0..MaxThreshold
    /\ index \in InitialIndexes(1)
    /\ pc = "idle"
    /\ job = None
    /\ plan = NoPlan
    /\ scan = NoScan
    /\ result = None
    /\ thread = NoThread
    /\ hist = InitialHistory(index)
    /\ index_docs = << >>
    /\ scan_out = NoScanOut

Next ==
    \/ NeedsBackfill
    \/ BeginBuild
    \/ ThreadDownload
    \/ StreamNext
    \/ StreamPartial
    \/ ThreadFinish
    \/ ThreadSend
    \/ Receive
    \/ FinishBuild
    \/ Commit
    \/ ReturnError
    \/ AdvanceClock
    \/ FastForward

Spec == Init /\ [][Next]_vars

\* The table histories of CatchUpSpec: documents of size 1 written at a
\* timestamp of 0..MaxTs - 1 and deleted at a later one, or never.
CatchUpTables ==
    {t \in [DocIds -> [size : {1}, created : 0..(MaxTs - 1),
                       deleted : 0..MaxTs]] :
        \A d \in DocIds : t[d].deleted = 0 \/ t[d].deleted > t[d].created}

\* CatchUpSpec: the same program over a table whose documents are also
\* deleted; the index starts as a fresh backfill or as a snapshot at
\* timestamp 0, so that MaxTs builds can follow one another.
CatchUpInit ==
    /\ clock = 1
    /\ table \in CatchUpTables
    /\ threshold = MaxThreshold
    /\ index \in InitialIndexes(0)
    /\ pc = "idle"
    /\ job = None
    /\ plan = NoPlan
    /\ scan = NoScan
    /\ result = None
    /\ thread = NoThread
    /\ hist = InitialHistory(index)
    /\ index_docs = << >>
    /\ scan_out = NoScanOut

\* In CatchUpSpec the caller can also give a result up and run the build
\* again.
CatchUpNext ==
    \/ Next
    \/ Discard

CatchUpSpec == CatchUpInit /\ [][CatchUpNext]_vars

\* ChannelSpec: the tables of CatchUpSpec whose documents are never deleted,
\* and the indexes that hold segments or none yet.
ChannelInit ==
    /\ CatchUpInit
    /\ \A d \in DocIds : table[d].deleted = 0
    /\ index.data = "MultiSegment"

\* In ChannelSpec the build thread can also end before it sends and the
\* caller can be dropped while it waits.
ChannelNext ==
    \/ CatchUpNext
    \/ ThreadDies
    \/ CancelCaller
    \/ Reap

ChannelSpec == ChannelInit /\ [][ChannelNext]_vars

\* No step of the run has failed.
Succeeds == thread.failed = {} /\ pc # "failed"

\* A step of the flusher, its build thread or its caller in which nothing
\* fails: builds are run, every build succeeds, every result is committed.
FlusherStep ==
    /\ \/ NeedsBackfill
       \/ BeginBuild
       \/ ThreadDownload
       \/ StreamNext
       \/ StreamPartial
       \/ ThreadFinish
       \/ ThreadSend
       \/ Receive
       \/ FinishBuild
       \/ Commit
    /\ Succeeds'

\* BackfillSpec: a fresh backfill over a table in which every document fits
\* the threshold; the history counts the committed backfill runs.
BackfillInit ==
    /\ clock = 1
    /\ threshold \in 1..MaxThreshold
    /\ table \in [DocIds -> [size : 1..MaxSize, created : Timestamps,
                             deleted : {0}]]
    /\ \A d \in DocIds : estimate_document_size(d) <= threshold
    /\ index = BackfillingState(None, None, << >>)
    /\ pc = "idle"
    /\ job = None
    /\ plan = NoPlan
    /\ scan = NoScan
    /\ result = None
    /\ thread = NoThread
    /\ hist = [NoHistory(None) EXCEPT !.runs = Some(0)]
    /\ index_docs = << >>
    /\ scan_out = NoScanOut

BackfillNext ==
    \/ FlusherStep
    \/ AdvanceClock
    \/ FastForward

\* The flusher, the build thread and the caller keep taking their steps.
BackfillSpec ==
    BackfillInit /\ [][BackfillNext]_vars /\ WF_vars(FlusherStep)

(* ------------------ ScanSpec: needs_backfill on its own ---------------- *)
\* The entries an index can have in the size map: none, or a size.
SizeEntries == {None} \cup {Some(n) : n \in 0..MaxIndexSize}

\* The metadata records get_all_indexes can return. The fast-forward
\* timestamp runs up to MaxTs + 1, later than the scanner's transaction.
IndexMetas ==
    {OtherKind, BackfillingState(None, None, << >>)}
    \cup {SnapshotState(st, 1, data, << >>, ff, size) :
             st \in {"Backfilled", "SnapshottedAt"},
             data \in {"Unknown", "MultiSegment"},
             ff \in 1..(MaxTs + 1),
             size \in SizeEntries}

\* One call of needs_backfill over all the index records, at begin timestamp
\* clock.
NeedsBackfillScan ==
    /\ pc = "idle"
    /\ \E fail_at \in 0..(Len(index_docs) + 1) :
         scan_out' = needs_backfill(index_docs, clock, fail_at)
    /\ pc' = "scanned"
    /\ UNCHANGED << clock, table, threshold, index, job, plan, scan, result,
                    thread, hist, index_docs >>

ScanInit ==
    /\ clock = MaxTs
    /\ table = [d \in DocIds |-> [size |-> 1, created |-> 1, deleted |-> 0]]
    /\ threshold = 1
    /\ index = OtherKind
    /\ pc = "idle"
    /\ job = None
    /\ plan = NoPlan
    /\ scan = NoScan
    /\ result = None
    /\ thread = NoThread
    /\ hist = NoHistory(None)
    /\ index_docs \in [1..NumIndexes -> IndexMetas]
    /\ scan_out = NoScanOut

ScanNext == NeedsBackfillScan

ScanSpec == ScanInit /\ [][ScanNext]_vars

(* =============================== claims ================================ *)
RECURSIVE SumSizes(_)
SumSizes(q) ==
    IF q = << >> THEN 0 ELSE table[Head(q)].size + SumSizes(Tail(q))

\* A run has been planned and its plan is IncrementalComplete.
IncrementalRun ==
    plan.begin_ts > 0 /\ plan.build_type.kind = "IncrementalComplete"

\* The run returned a result that carries a backfill result.
BackfillReturned ==
    IncrementalRun /\ IsSome(result) /\ IsSome(Unwrap(result).backfill_result)

ReturnedBackfill == Unwrap(Unwrap(result).backfill_result)

\* The documents of the table at the run's snapshot that follow its cursor.
RemainingDocs ==
    {d \in DocsAt(Unwrap(plan.build_type.backfill_snapshot_ts)) :
        IsSome(plan.build_type.cursor) => d > Unwrap(plan.build_type.cursor)}

(* C1: in an IncrementalComplete run the sizes of the documents yielded to  *)
(* the builder sum to at most the threshold; the first document that pushes *)
(* the running total above the threshold is not yielded, and the stream    *)
(* ends there: what was yielded is exactly the documents before it.        *)
C1_ByteBudget ==
    IncrementalRun =>
        /\ SumSizes(scan.yielded) <= threshold
        /\ scan.stopped =>
             /\ scan.done
             /\ scan.pos >= 1
             /\ scan.yielded = SubSeq(Source, 1, scan.pos - 1)
             /\ SumSizes(SubSeq(Source, 1, scan.pos)) > threshold

C1_Witness ==
    /\ BackfillReturned
    /\ scan.stopped
    /\ scan.yielded # << >>

(* C2, as claimed: a run whose result has is_backfill_complete = false     *)
(* yielded documents whose sizes sum to strictly less than the threshold.  *)
C2_StrictlyBelowThreshold ==
    (BackfillReturned /\ ~ReturnedBackfill.is_backfill_complete)
        => SumSizes(scan.yielded) < threshold

(* C2, amended: a run whose result has is_backfill_complete = false        *)
(* yielded documents whose sizes sum to at most the threshold (the sum can *)
(* equal it), and that sum plus the size of the document the run stopped   *)
(* on is strictly greater than the threshold.                              *)
C2_AtMostThreshold ==
    (BackfillReturned /\ ~ReturnedBackfill.is_backfill_complete)
        => /\ SumSizes(scan.yielded) <= threshold
           /\ Len(scan.yielded) < Len(Source)
           /\ SumSizes(scan.yielded)
                + table[Source[Len(scan.yielded) + 1]].size > threshold

C2_Witness ==
    /\ BackfillReturned
    /\ ~ReturnedBackfill.is_backfill_complete
    /\ SumSizes(scan.yielded) = threshold

(* C3: in an IncrementalComplete run new_cursor is the id of the last      *)
(* document yielded (None while none was), also after an error element and *)
(* after the over-budget element; once a document was yielded it is        *)
(* strictly greater than the run's input cursor; the result reports it.    *)
C3_CursorIsLastYielded ==
    IncrementalRun =>
        /\ scan.new_cursor =
              IF scan.yielded = << >> THEN None
              ELSE Some(scan.yielded[Len(scan.yielded)])
        /\ (scan.yielded # << >> /\ IsSome(plan.build_type.cursor))
              => Unwrap(scan.new_cursor) > Unwrap(plan.build_type.cursor)
        /\ IsSome(result) => ReturnedBackfill.new_cursor = scan.new_cursor

C3_Witness ==
    /\ BackfillReturned
    /\ scan.yielded # << >>
    /\ IsSome(plan.build_type.cursor)
    /\ ReturnedBackfill.new_cursor = Some(scan.yielded[Len(scan.yielded)])

(* C4: the result of an IncrementalComplete run has is_backfill_complete = *)
(* true exactly when the run yielded every document after its input cursor *)
(* and their sizes sum to at most the threshold; a run that stopped on the *)
(* byte budget reports false.                                              *)
C4_CompleteIffDrained ==
    BackfillReturned =>
        /\ ReturnedBackfill.is_backfill_complete
              <=> /\ SeqToSet(scan.yielded) = RemainingDocs
                  /\ SumSizes(Ascending(RemainingDocs)) <= threshold
        /\ scan.stopped => ~ReturnedBackfill.is_backfill_complete

C4_Witness ==
    /\ BackfillReturned
    /\ ReturnedBackfill.is_backfill_complete
    /\ IsSome(plan.build_type.cursor)
    /\ scan.yielded # << >>

(* C5: a run for a Backfilling index whose backfill_snapshot_ts is set to t *)
(* plans its scan at t and returns snapshot_ts = t whatever its begin       *)
(* timestamp; a run that finds it unset uses its begin timestamp; and while *)
(* the index stays Backfilling a commit never changes a set anchor.         *)
C5_RunAtAnchor ==
    (plan.begin_ts > 0 /\ Unwrap(job).index_config.state = "Backfilling") =>
        LET anchor == Unwrap(job).index_config.backfill_snapshot_ts
            t == IF IsSome(anchor) THEN Unwrap(anchor) ELSE plan.begin_ts
        IN  /\ plan.new_ts = t
            /\ plan.build_type = IncrementalComplete(
                                    Unwrap(job).index_config.cursor, t)
            /\ IsSome(result) => Unwrap(result).snapshot_ts = t

C5_AnchorKept ==
    (/\ index.state = "Backfilling"
     /\ IsSome(index.backfill_snapshot_ts)
     /\ index'.state = "Backfilling")
        => index'.backfill_snapshot_ts = index.backfill_snapshot_ts

C5_AnchorStable == []C5_RunAtAnchor /\ [][C5_AnchorKept]_vars

C5_Witness ==
    /\ plan.begin_ts > 0
    /\ Unwrap(job).index_config.state = "Backfilling"
    /\ IsSome(Unwrap(job).index_config.backfill_snapshot_ts)
    /\ plan.begin_ts > Unwrap(Unwrap(job).index_config.backfill_snapshot_ts)
    /\ IsSome(result)
    /\ Unwrap(result).snapshot_ts
         = Unwrap(Unwrap(job).index_config.backfill_snapshot_ts)

(* ----------------------- claims on needs_backfill ---------------------- *)
\* needs_backfill has returned in ScanSpec, with Ok or with Err.
Scanned == pc = "scanned"

\* Index record i reaches the size and age rules: it is of the flusher's
\* kind, Backfilled or SnapshottedAt, and its format version is current.
SizedAndAged(i) ==
    /\ index_docs[i].kind = "search"
    /\ index_docs[i].state \in {"Backfilled", "SnapshottedAt"}
    /\ index_docs[i].data = "MultiSegment"

FastForwardTs(i) ==
    IF index_docs[i].ff > index_docs[i].ts
    THEN index_docs[i].ff ELSE index_docs[i].ts

AgeOf(i) == clock - FastForwardTs(i)

SizeOf(i) ==
    IF index_docs[i].size = None THEN 0 ELSE index_docs[i].size[1]

\* The build reasons of the jobs returned for index record i, one per job.
JobsOf(i) == {k \in 1..Len(scan_out.jobs) : scan_out.jobs[k].index_id = i}
ReasonsOf(i) == {scan_out.jobs[k].build_reason : k \in JobsOf(i)}

(* C6: an index with a current version, Backfilled or SnapshottedAt, whose *)
(* size exceeds index_size_soft_limit and whose age is at least            *)
(* DATABASE_WORKERS_MAX_CHECKPOINT_AGE gets a job with build_reason        *)
(* TooLarge, never TooOld.                                                 *)
C6_TooLargeBeatsTooOld ==
    (Scanned /\ scan_out.ok) =>
        \A i \in 1..Len(index_docs) :
            (/\ SizedAndAged(i)
             /\ SizeOf(i) > index_size_soft_limit
             /\ AgeOf(i) >= DATABASE_WORKERS_MAX_CHECKPOINT_AGE)
                => ReasonsOf(i) = {"TooLarge"}

C6_Witness ==
    /\ Scanned
    /\ scan_out.ok
    /\ \E i \in 1..Len(index_docs) :
          /\ SizedAndAged(i)
          /\ SizeOf(i) > index_size_soft_limit
          /\ AgeOf(i) >= DATABASE_WORKERS_MAX_CHECKPOINT_AGE
          /\ "TooLarge" \in ReasonsOf(i)

(* C7: an index whose size is 0, or that is missing from the size map, is  *)
(* never classified TooOld, whatever its age; among the indexes that reach *)
(* the size and age rules TooOld is the reason exactly when the age is at  *)
(* least DATABASE_WORKERS_MAX_CHECKPOINT_AGE and 0 < size <= soft limit.   *)
C7_EmptyNeverTooOld ==
    (Scanned /\ scan_out.ok) =>
        \A i \in 1..Len(index_docs) :
            /\ SizeOf(i) = 0 => "TooOld" \notin ReasonsOf(i)
            /\ SizedAndAged(i) =>
                 ("TooOld" \in ReasonsOf(i)
                    <=> /\ AgeOf(i) >= DATABASE_WORKERS_MAX_CHECKPOINT_AGE
                        /\ SizeOf(i) > 0
                        /\ SizeOf(i) <= index_size_soft_limit)

C7_Witness ==
    /\ Scanned
    /\ scan_out.ok
    /\ \E i, j \in 1..Len(index_docs) :
          /\ SizedAndAged(i)
          /\ index_docs[i].size = None
          /\ AgeOf(i) >= DATABASE_WORKERS_MAX_CHECKPOINT_AGE
          /\ ReasonsOf(i) = {}
          /\ SizedAndAged(j)
          /\ ReasonsOf(j) = {"TooOld"}

\* The build reasons the rules of the claim give index record i.
ExpectedReasons(i) ==
    IF index_docs[i].kind # "search" THEN {}
    ELSE IF index_docs[i].state = "Backfilling" THEN {"Backfilling"}
    ELSE IF index_docs[i].data = "Unknown" THEN {"VersionMismatch"}
    ELSE IF SizeOf(i) > index_size_soft_limit THEN {"TooLarge"}
    ELSE IF AgeOf(i) >= DATABASE_WORKERS_MAX_CHECKPOINT_AGE /\ SizeOf(i) > 0
    THEN {"TooOld"}
    ELSE {}

(* C8: a successful needs_backfill returns exactly one job for each index  *)
(* of its kind that is Backfilling, stale, TooLarge or TooOld, none for    *)
(* any other index, in the order of the index records; the reason is       *)
(* Backfilling for a Backfilling index and VersionMismatch for a stale     *)
(* Backfilled or SnapshottedAt index whatever its size and age; each job   *)
(* carries the config scanned.                                             *)
C8_ExactlyTheJobs ==
    (Scanned /\ scan_out.ok) =>
        /\ \A i \in 1..Len(index_docs) :
              /\ ReasonsOf(i) = ExpectedReasons(i)
              /\ Cardinality(JobsOf(i)) = Cardinality(ExpectedReasons(i))
        /\ \A k \in 1..Len(scan_out.jobs) :
              /\ scan_out.jobs[k].index_id \in 1..Len(index_docs)
              /\ scan_out.jobs[k].index_config
                    = index_docs[scan_out.jobs[k].index_id]
              /\ \A l \in 1..Len(scan_out.jobs) :
                    k < l => scan_out.jobs[k].index_id < scan_out.jobs[l].index_id

C8_Witness ==
    /\ Scanned
    /\ scan_out.ok
    /\ Len(scan_out.jobs) = 2
    /\ index_docs[1].state = "Backfilled"
    /\ index_docs[1].data = "Unknown"
    /\ SizeOf(1) > index_size_soft_limit
    /\ scan_out.jobs[1].build_reason = "VersionMismatch"
    /\ scan_out.jobs[2].build_reason = "Backfilling"

C10_VersionMismatchRebuilds ==
    (plan.begin_ts > 0 /\ Unwrap(job).build_reason = "VersionMismatch") =>
        /\ plan.previous_segments = << >>
        /\ plan.build_type = IncrementalComplete(None, plan.new_ts)
        /\ plan.new_ts = plan.begin_ts

C10_Witness ==
    /\ plan.begin_ts > 1
    /\ Unwrap(job).build_reason = "VersionMismatch"
    /\ Unwrap(job).index_config.state = "SnapshottedAt"
    /\ plan.build_type.kind = "IncrementalComplete"
    /\ scan.yielded # << >>

(* ---------------------- claims on the result --------------------------- *)
\* The run returned a result: the value the thread sent is its input.
Returned == IsSome(result) /\ IsSome(thread.out)

ThreadOut == Unwrap(thread.out)

C12_DataIsPreviousThenNew ==
    Returned =>
        LET r == Unwrap(result)
            n == Len(plan.previous_segments)
            built == IsSome(ThreadOut.new_segment)
        IN  /\ Len(ThreadOut.updated_previous_segments) = n
            /\ Len(r.data) = n + (IF built THEN 1 ELSE 0)
            /\ \A i \in 1..n :
                 /\ r.data[i] = ThreadOut.updated_previous_segments[i]
                 /\ r.data[i] \subseteq plan.previous_segments[i]
            /\ built => r.data[n + 1] = Unwrap(ThreadOut.new_segment)
            /\ IsSome(r.new_segment_id) <=> built
            /\ IsSome(r.new_segment_stats) <=> built
            /\ built =>
                 /\ Unwrap(r.new_segment_id) = Unwrap(ThreadOut.new_segment)
                 /\ Unwrap(r.new_segment_stats)
                        = Cardinality(Unwrap(ThreadOut.new_segment))

C12_Witness ==
    /\ Returned
    /\ Len(plan.previous_segments) = 1
    /\ IsSome(Unwrap(result).new_segment_id)
    /\ Unwrap(result).data[1] # plan.previous_segments[1]
    /\ Unwrap(result).data[1] # Unwrap(result).data[2]

\* The sum of the document counts of the segments, from the right.
RECURSIVE SumStats(_)
SumStats(segments) ==
    IF segments = << >> THEN 0
    ELSE SumStats(SubSeq(segments, 1, Len(segments) - 1))
         + Cardinality(segments[Len(segments)])

(* C13: total_stats of the result is the sum of the statistics of exactly  *)
(* the segments in the data of the result, and the empty statistics when   *)
(* the data has no segment.                                                *)
C13_TotalStatsIsSum ==
    Returned =>
        /\ Unwrap(result).total_stats = SumStats(Unwrap(result).data)
        /\ Unwrap(result).data = << >> => Unwrap(result).total_stats = 0

C13_Witness ==
    /\ Returned
    /\ Len(Unwrap(result).data) = 2
    /\ Unwrap(result).data[2] # {}
    /\ ~IsSome(Unwrap(result).backfill_result)
    /\ Unwrap(result).total_stats
           = Cardinality(Unwrap(result).data[1])
             + Cardinality(Unwrap(result).data[2])

(* C14: build_multipart_segment returns a result only when every step      *)
(* succeeded. Once a step has failed (the begin of the transaction or the  *)
(* plan, the download, the stream, build_disk_index, an upload, a          *)
(* statistics call, the channel) the caller never holds the thread's value *)
(* as a result: the result stays absent, the caller is never in the        *)
(* position from which it commits, and a stream that yielded an error      *)
(* never produces a value.                                                 *)
C14_ResultOnlyOnSuccess ==
    /\ IsSome(result) => thread.failed = {} /\ pc = "returned"
    /\ thread.failed # {} =>
         /\ result = None
         /\ pc \in {"awaiting", "failed", "cancelled"}
         /\ IsSome(thread.out) /\ thread.failed \cap {"download", "stream",
               "build_disk_index", "upload_previous_segments"} # {}
              => ~ThreadOut.ok
    /\ scan.errored => result = None /\ thread.failed # {}

C14_Witness ==
    /\ pc = "failed"
    /\ thread.failed = {"statistics"}
    /\ thread.prev_uploaded
    /\ thread.new_upload = "done"
    /\ result = None

(* ----------------------- claim on a repeated run ----------------------- *)
\* The run repeats the last run given up: same index metadata, same begin
\* timestamp, and nothing was committed in between.
RepeatsLastRun ==
    /\ Returned
    /\ IsSome(hist.last_run)
    /\ Unwrap(hist.last_run).config = Unwrap(job).index_config
    /\ Unwrap(hist.last_run).begin_ts = plan.begin_ts

Delivered == thread.chan = "taken"

(* C16: the one-shot channel delivers the thread's value exactly once.     *)
(* When the sender is dropped before send, the caller returns an error and *)
(* never a result. When the receiver is dropped first, the send has no     *)
(* effect: the thread runs to completion, its value is never delivered and *)
(* no result exists. A value is received only from a channel that holds    *)
(* one, and a channel whose value was taken holds none again.              *)
C16_ChannelState ==
    /\ thread.chan = "tx_dropped" =>
         /\ result = None
         /\ pc \in {"awaiting", "failed", "cancelled"}
    /\ pc = "cancelled" =>
         /\ result = None
         /\ thread.chan \in {"rx_dropped", "tx_dropped"}
    /\ pc \in {"received", "returned"} => Delivered /\ ThreadOut.ok
    /\ Delivered => thread.pc = "done" /\ IsSome(thread.out)

C16_ChannelStep ==
    /\ (pc # "received" /\ pc' = "received") =>
           thread.chan = "sent" /\ thread'.chan = "taken"
    /\ Delivered => thread'.chan \in {"taken", "none"}
    /\ thread.chan \in {"rx_dropped", "tx_dropped"} =>
           thread'.chan \in {thread.chan, "none"}

C16_OneShot == []C16_ChannelState /\ [][C16_ChannelStep]_vars

C16_Witness ==
    /\ pc = "cancelled"
    /\ thread.chan = "rx_dropped"
    /\ thread.pc = "done"
    /\ IsSome(thread.out)
    /\ ThreadOut.ok
    /\ IsSome(ThreadOut.new_segment)
    /\ result = None

(* C17: within a build the previous segments are uploaded before the new   *)
(* segment: the upload of the new segment is attempted only after the      *)
(* upload of the previous segments has succeeded, and when the upload of   *)
(* the new segment fails the previous segments stay uploaded while the     *)
(* build returns an error and no result.                                   *)
C17_PreviousUploaded ==
    /\ thread.new_upload # "none" => thread.prev_uploaded
    /\ thread.new_upload = "failed" =>
         /\ thread.prev_uploaded
         /\ result = None
         /\ pc = "failed"

C17_UploadStep ==
    /\ thread'.new_upload # thread.new_upload /\ thread'.new_upload # "none"
           => thread.prev_uploaded /\ thread'.prev_uploaded
    /\ (thread'.prev_uploaded /\ ~thread.prev_uploaded)
           => thread.new_upload = "none" /\ thread'.new_upload = "none"

C17_UploadOrder == []C17_PreviousUploaded /\ [][C17_UploadStep]_vars

C17_Witness ==
    /\ pc = "failed"
    /\ thread.new_upload = "failed"
    /\ thread.prev_uploaded
    /\ plan.previous_segments # << >>
    /\ result = None

(* ------------------- claim on the catch-up ranges ---------------------- *)
\* The revisions of the table with a timestamp in (after, upto].
RevisionsIn(after, upto) ==
    {Revision(table[d].created, d, TRUE) :
        d \in {e \in DocIds : /\ table[e].created > after
                              /\ table[e].created <= upto}}
    \cup {Revision(table[d].deleted, d, FALSE) :
        d \in {e \in DocIds : /\ table[e].deleted > after
                              /\ table[e].deleted <= upto}}

\* The sequence holds every element of the set once and nothing else.
EachOnce(q, S) == SeqToSet(q) = S /\ Len(q) = Cardinality(S)

\* The index is a snapshot kept up by Partial builds since its first
\* snapshot.
CaughtUp ==
    /\ IsSome(hist.first_ts)
    /\ index.state # "Backfilling"
    /\ index.data = "MultiSegment"

\* A Partial run has consumed its stream.
PartialConsumed ==
    /\ plan.begin_ts > 0
    /\ plan.build_type.kind = "Partial"
    /\ scan.done
    /\ ~scan.errored

(* C18: over the committed Partial builds of an index, each build reads    *)
(* exactly the modifications with a timestamp in (last_ts, new_ts], where  *)
(* last_ts is the fast-forward timestamp of the committed snapshot; the    *)
(* ranges of successive builds do not overlap, no modification lies        *)
(* between them, and every modification after the first snapshot up to the *)
(* committed snapshot is consumed by exactly one build, in commit order.   *)
C18_ReadsItsRange ==
    PartialConsumed =>
        LET last_ts == IF index.ff > index.ts THEN index.ff ELSE index.ts
        IN  /\ plan.build_type.last_ts = Some(last_ts)
            /\ plan.new_ts = plan.begin_ts
            /\ last_ts <= plan.new_ts
            /\ EachOnce(scan.revisions, RevisionsIn(last_ts, plan.new_ts))

C18_AbsorbedOnce ==
    CaughtUp =>
        /\ EachOnce(hist.absorbed,
                    RevisionsIn(Unwrap(hist.first_ts), index.ts))
        /\ \A i, j \in 1..Len(hist.absorbed) :
             i < j => hist.absorbed[i].ts <= hist.absorbed[j].ts
        /\ \A i \in 1..Len(hist.ranges) :
             /\ hist.ranges[i][1] <= hist.ranges[i][2]
             /\ LET before == IF i = 1 THEN Unwrap(hist.first_ts)
                              ELSE hist.ranges[i - 1][2]
                IN  /\ before <= hist.ranges[i][1]
                    /\ RevisionsIn(before, hist.ranges[i][1]) = {}
        /\ hist.ranges # << >> =>
             LET end == hist.ranges[Len(hist.ranges)][2]
             IN  end <= index.ts /\ RevisionsIn(end, index.ts) = {}

C18_CommitStep ==
    (pc = "returned" /\ index' # index /\ plan.build_type.kind = "Partial")
        => /\ index'.ts = plan.new_ts
           /\ index'.state = index.state
           /\ hist'.absorbed = hist.absorbed \o scan.revisions

C19_IncompleteRunAdvances ==
    (BackfillReturned /\ ~ReturnedBackfill.is_backfill_complete) =>
        /\ IsSome(ReturnedBackfill.new_cursor)
        /\ IsSome(plan.build_type.cursor) =>
             Unwrap(ReturnedBackfill.new_cursor)
                 > Unwrap(plan.build_type.cursor)

\* The run the claim leaves out: the first document of the stream is alone
\* over the threshold, nothing is yielded, the result says not complete and
\* carries no cursor.
C19_StalledRun ==
    /\ BackfillReturned
    /\ ~ReturnedBackfill.is_backfill_complete
    /\ ReturnedBackfill.new_cursor = None
    /\ scan.yielded = << >>
    /\ estimate_document_size(Source[1]) > threshold

\* The segments partition the set S in by-id order: no document twice, none
\* missing, every id of a segment below every id of the next ones.
PartitionInOrder(segments, S) ==
    /\ UNION {segments[i] : i \in 1..Len(segments)} = S
    /\ \A i, j \in 1..Len(segments) :
         i < j => \A d \in segments[i], e \in segments[j] : d < e

(* C20: over a whole backfill, from cursor None to the first run that      *)
(* reports complete, with every result committed, each document of the     *)
(* table at backfill_snapshot_ts is yielded exactly once and in by-id      *)
(* order: the segments of the completing result hold every document of     *)
(* that snapshot once, run after run in ascending ids, and each run yields *)
(* the documents that follow its cursor in ascending ids with none left    *)
(* out in between.                                                         *)
C20_BackfillYieldsEachOnce ==
    /\ IncrementalRun =>
         /\ \A i, j \in 1..Len(scan.yielded) :
              i < j => scan.yielded[i] < scan.yielded[j]
         /\ \A d \in RemainingDocs :
              (scan.yielded # << >>
               /\ d < scan.yielded[Len(scan.yielded)])
                  => d \in SeqToSet(scan.yielded)
         /\ SeqToSet(scan.yielded) \subseteq RemainingDocs
    /\ (BackfillReturned /\ ReturnedBackfill.is_backfill_complete) =>
         /\ PartitionInOrder(Unwrap(result).data,
                DocsAt(Unwrap(plan.build_type.backfill_snapshot_ts)))
         /\ NumDocuments(Unwrap(result).data)
                = Cardinality(DocsAt(Unwrap(plan.build_type.backfill_snapshot_ts)))

C20_Witness ==
    /\ BackfillReturned
    /\ ReturnedBackfill.is_backfill_complete
    /\ Len(Unwrap(result).data) = 2
    /\ IsSome(plan.build_type.cursor)
    /\ scan.yielded # << >>
    /\ Unwrap(plan.build_type.backfill_snapshot_ts) < plan.begin_ts

(* --------------------- claim on the backfill's end --------------------- *)
\* The snapshot the backfill of the index reads, once a run has anchored it.
BackfillAnchor ==
    IF index.state = "Backfilling" THEN index.backfill_snapshot_ts
    ELSE Some(index.ts)

\* A run has returned a result that reports the backfill complete.
CompleteRunReturned ==
    BackfillReturned /\ ReturnedBackfill.is_backfill_complete

(* C21: when every document's estimated size is at most the threshold, no  *)
(* step fails, builds keep being run and every result is committed, a      *)
(* backfill that starts from cursor None eventually has a run that reports *)
(* is_backfill_complete = true, and the number of committed backfill runs  *)
(* is never more than the number of documents of the table at the          *)
(* backfill's snapshot plus one.                                           *)
C21_RunsBound ==
    /\ IsSome(hist.runs)
    /\ IsSome(BackfillAnchor) =>
         Unwrap(hist.runs)
             <= Cardinality(DocsAt(Unwrap(BackfillAnchor))) + 1
    /\ ~IsSome(BackfillAnchor) => hist.runs = Some(0)
    /\ CompleteRunReturned =>
         Unwrap(hist.runs) + 1
             <= Cardinality(DocsAt(Unwrap(plan.build_type.backfill_snapshot_ts)))
                + 1

C21_BackfillTerminates == <>CompleteRunReturned /\ []C21_RunsBound

C21_Witness ==
    /\ index.state = "Backfilled"
    /\ Cardinality(DocsAt(index.ts)) = MaxDocs
    /\ hist.runs = Some(MaxDocs)
    /\ Len(index.segments) = MaxDocs

====
